---- MODULE Spec2Model ----
(***************************************************************************)
(* A model of src/src/gauss_jordan.hpp: the class GaussJordan::Matrix, the *)
(* solver GaussJordan::Solve and the residual GaussJordan::ErrorEstimate.  *)
(*                                                                         *)
(* A Real is modelled exactly: a pair <<n, d>> in lowest terms, d > 0, is  *)
(* the rational n/d; d = 0 marks the values std::isfinite rejects:         *)
(* <<0,0>> is NaN, <<1,0>> is +infinity, <<-1,0>> is -infinity.            *)
(* Rounding, overflow to infinity and the sign of zero are not modelled.   *)
(* Vectors are sequences, so the source's v[i] is v[i + 1] here.           *)
(***************************************************************************)
EXTENDS Integers, Sequences, FiniteSets, TLC

VARIABLES
    matrix,      \* the Matrix an operation works on (Solve: its by-value copy)
    equal,       \* the right-hand side (Solve: its by-value copy)
    epsilon,     \* Solve's magnitude threshold
    result,      \* Solve's return value; ErrorEstimate's third argument
    arg_matrix,  \* the caller's matrix, which Solve never changes
    arg_equal,   \* the caller's right-hand side
    nze_list,    \* Solve: per column, the rows whose entry is >= epsilon
    list_index,  \* Solve: per column, the counter into nze_list
    pc,          \* the position of the running operation
    iterations,  \* history: the passes through Solve's while (1) begun so far
                 \* (the calls made so far, where a Matrix is being called)
    access,      \* history: the largest indices the last pass of the search (or
                 \* the reduction) used on list_index and on row_used
    outcome,     \* history: the return statement Solve left through
    ret,         \* the value the last call on the Matrix returned (0: none)
    error        \* ErrorEstimate's return value

vars == <<matrix, equal, epsilon, result, arg_matrix, arg_equal, nze_list,
          list_index, pc, iterations, access, outcome, ret, error>>

-----------------------------------------------------------------------------
(* Bounds of the model *)

\* Solve is called with matrices of up to MaxRows x MaxCols
MaxRows == 3
MaxCols == 2

\* A matrix of more than MaxSmall cells is tried with entries 0 and 1 only
MaxSmall == 4

\* The Matrix members and ErrorEstimate are called on matrices of up to
\* MaxDim x MaxDim, the members at most MaxCalls times on one Matrix
MaxDim == 2
MaxCalls == 2

-----------------------------------------------------------------------------
(* Real *)

NaN == <<0, 0>>
PInf == <<1, 0>>
NInf == <<-1, 0>>

Fin(n) == <<n, 1>>

IsNaN(x) == x = NaN

isfinite(x) == x[2] # 0

AbsInt(n) == IF n < 0 THEN -n ELSE n

Sgn(n) == IF n < 0 THEN -1 ELSE IF n > 0 THEN 1 ELSE 0

RECURSIVE Gcd(_, _)
Gcd(a, b) == IF b = 0 THEN a ELSE Gcd(b, a % b)

\* n/d in lowest terms with a positive denominator (d # 0)
Norm(n, d) ==
    LET g == Gcd(AbsInt(n), AbsInt(d))
        s == Sgn(d)
    IN  <<(s * n) \div g, (s * d) \div g>>

Neg(a) == <<-a[1], a[2]>>

Add(a, b) ==
    IF IsNaN(a) \/ IsNaN(b) THEN NaN
    ELSE IF isfinite(a) /\ isfinite(b)
         THEN Norm(a[1] * b[2] + b[1] * a[2], a[2] * b[2])
    ELSE IF isfinite(b) THEN a
    ELSE IF isfinite(a) THEN b
    ELSE IF a = b THEN a ELSE NaN

Sub(a, b) == Add(a, Neg(b))

Mul(a, b) ==
    IF IsNaN(a) \/ IsNaN(b) THEN NaN
    ELSE IF isfinite(a) /\ isfinite(b) THEN Norm(a[1] * b[1], a[2] * b[2])
    ELSE IF Sgn(a[1]) * Sgn(b[1]) = 0 THEN NaN
    ELSE <<Sgn(a[1]) * Sgn(b[1]), 0>>

Div(a, b) ==
    IF IsNaN(a) \/ IsNaN(b) THEN NaN
    ELSE IF isfinite(a) /\ isfinite(b)
         THEN IF b[1] # 0 THEN Norm(a[1] * b[2], a[2] * b[1])
              ELSE IF a[1] = 0 THEN NaN ELSE <<Sgn(a[1]), 0>>
    ELSE IF isfinite(a) THEN Fin(0)
    ELSE IF isfinite(b) THEN <<a[1] * (IF b[1] < 0 THEN -1 ELSE 1), 0>>
    ELSE NaN

abs(a) == <<AbsInt(a[1]), a[2]>>

\* a < b; false when either is NaN
Less(a, b) ==
    IF IsNaN(a) \/ IsNaN(b) THEN FALSE
    ELSE IF isfinite(a) /\ isfinite(b) THEN a[1] * b[2] < b[1] * a[2]
    ELSE IF a = b THEN FALSE
    ELSE a = NInf \/ b = PInf

\* a >= b; false when either is NaN
GreaterEq(a, b) == ~IsNaN(a) /\ ~IsNaN(b) /\ ~Less(a, b)

Zero == Fin(0)

\* f[1] + ... + f[n], added in that order to a sum that starts at 0
RECURSIVE SumTo(_, _)
SumTo(f, n) == IF n = 0 THEN Zero ELSE Add(SumTo(f, n - 1), f[n])

-----------------------------------------------------------------------------
(* Input domains *)

Entries == {Fin(-1), Zero, Fin(1)}

Bits == {Zero, Fin(1)}

\* The values tried as the cells of a rows x columns matrix
CellVals(rows, columns) == IF rows * columns <= MaxSmall THEN Entries ELSE Bits

NonFinite == {NaN, PInf, NInf}

-----------------------------------------------------------------------------
(* class Matrix *)

\* Matrix(): the member initialisers
MatrixDefault == [n_rows |-> 0, n_columns |-> 0, cell |-> <<>>, dummy |-> NaN]

\* Matrix(rows, columns)
Matrix(rows, columns) ==
    IF rows < columns THEN MatrixDefault
    ELSE [n_rows |-> rows, n_columns |-> columns,
          cell |-> [r \in 1..rows |-> [c \in 1..columns |-> Zero]],
          dummy |-> NaN]

OutOfRange(m, row, column) == (row >= m.n_rows) \/ (column >= m.n_columns)

\* Real& operator()(row, column), used to read: every m(r, c) on a non-const Matrix
Read(m, row, column) ==
    IF OutOfRange(m, row, column) THEN m.dummy ELSE m.cell[row + 1][column + 1]

\* Real& operator()(row, column), used to write: m(r, c) = value
Write(m, row, column, value) ==
    IF OutOfRange(m, row, column) THEN [m EXCEPT !.dummy = value]
    ELSE [m EXCEPT !.cell[row + 1][column + 1] = value]

\* Real operator()(row, column) const
ReadConst(m, row, column) ==
    IF OutOfRange(m, row, column) THEN NaN ELSE m.cell[row + 1][column + 1]

AllFinite(data) == \A i \in 1..Len(data) : isfinite(data[i])

\* set_row's checks without the std::isfinite loop
set_row_rejects_LengthOnly(m, data) ==
    (m.n_columns = 0) \/ (Len(data) # m.n_columns)

set_row_rejects(m, data) ==
    (m.n_columns = 0) \/ (Len(data) # m.n_columns) \/ ~AllFinite(data)

set_column_rejects(m, data) ==
    (m.n_rows = 0) \/ (Len(data) # m.n_rows) \/ ~AllFinite(data)

\* What a store through an index past the end of a vector may leave behind: the
\* matrix as it was, or one cell of it overwritten with a value of data.
Stray(m, data) ==
    {m} \cup {[m EXCEPT !.cell[r][c] = data[k]] :
                r \in 1..m.n_rows, c \in 1..m.n_columns, k \in 1..Len(data)}

\* The matrices set_row(index, data) may leave
set_row(m, index, data) ==
    IF set_row_rejects(m, data) THEN {m}
    ELSE IF index < m.n_rows THEN {[m EXCEPT !.cell[index + 1] = data]}
    ELSE Stray(m, data)

\* The matrices set_column(index, data) may leave
set_column(m, index, data) ==
    IF set_column_rejects(m, data) THEN {m}
    ELSE IF index < m.n_columns
         THEN {[m EXCEPT !.cell = [r \in 1..m.n_rows |->
                                     [m.cell[r] EXCEPT ![index + 1] = data[r]]]]}
    ELSE Stray(m, data)

size(m) == <<m.n_rows, m.n_columns>>

is_valid(m) == ~((m.n_rows = 0) \/ (m.n_columns = 0) \/ (m.n_rows < m.n_columns))

is_diagonal_nonzero(m, eps) ==
    /\ is_valid(m)
    /\ \A i \in 0..(m.n_columns - 1) : ~Less(abs(m.cell[i + 1][i + 1]), eps)

-----------------------------------------------------------------------------
(* A caller using one Matrix through its public members *)

Indices == 0..MaxDim

\* The finite vector 1, 2, ..., k
Ramp(k) == [i \in 1..k |-> Fin(i)]

\* set_row and set_column arguments: the finite vector of each length up to
\* MaxDim + 1, and each of them with one element replaced by a non-finite value
Datas ==
    {Ramp(k) : k \in 0..(MaxDim + 1)}
        \cup UNION {{[Ramp(k) EXCEPT ![i] = x] : i \in 1..k, x \in NonFinite} :
                       k \in 1..MaxDim}

WriteVals == {Fin(1), PInf}

NoSolve ==
    /\ equal = <<>> /\ epsilon = Zero /\ result = <<>>
    /\ arg_matrix = MatrixDefault /\ arg_equal = <<>>
    /\ nze_list = <<>> /\ list_index = <<>>
    /\ outcome = "none"

SolveUnchanged ==
    UNCHANGED <<equal, epsilon, result, arg_matrix, arg_equal, nze_list,
                list_index, outcome>>

\* One more call on the Matrix (iterations counts them here)
Call ==
    /\ iterations < MaxCalls
    /\ iterations' = iterations + 1

\* history: the matrix before the last call and the call's arguments
Called(m, a, b, data) == [before |-> m, a |-> a, b |-> b, data |-> data]

MatrixInit ==
    /\ \E rows \in 0..MaxDim, columns \in 0..MaxDim : matrix = Matrix(rows, columns)
    /\ NoSolve
    /\ iterations = 0
    /\ pc = "constructed"
    /\ access = Called(matrix, 0, 0, <<>>)
    /\ ret = Zero
    /\ error = Zero

CallSetRow(index, data) ==
    /\ Call
    /\ matrix' \in set_row(matrix, index, data)
    /\ pc' = "set_row"
    /\ access' = Called(matrix, index, 0, data)
    /\ ret' = Zero
    /\ UNCHANGED error
    /\ SolveUnchanged

CallSetColumn(index, data) ==
    /\ Call
    /\ matrix' \in set_column(matrix, index, data)
    /\ pc' = "set_column"
    /\ access' = Called(matrix, index, 0, data)
    /\ ret' = Zero
    /\ UNCHANGED error
    /\ SolveUnchanged

\* matrix(row, column) = value
CallWrite(row, column, value) ==
    /\ Call
    /\ matrix' = Write(matrix, row, column, value)
    /\ pc' = "write"
    /\ access' = Called(matrix, row, column, <<value>>)
    /\ ret' = Zero
    /\ UNCHANGED error
    /\ SolveUnchanged

\* value = matrix(row, column), the Matrix not const
CallRead(row, column) ==
    /\ Call
    /\ ret' = Read(matrix, row, column)
    /\ pc' = "read"
    /\ access' = Called(matrix, row, column, <<>>)
    /\ UNCHANGED <<matrix, error>>
    /\ SolveUnchanged

\* value = matrix(row, column) through a const Matrix&
CallReadConst(row, column) ==
    /\ Call
    /\ ret' = ReadConst(matrix, row, column)
    /\ pc' = "read_const"
    /\ access' = Called(matrix, row, column, <<>>)
    /\ UNCHANGED <<matrix, error>>
    /\ SolveUnchanged

MatrixNext ==
    \/ \E index \in Indices, data \in Datas : CallSetRow(index, data)
    \/ \E index \in Indices, data \in Datas : CallSetColumn(index, data)
    \/ \E row \in Indices, column \in Indices, value \in WriteVals :
          CallWrite(row, column, value)
    \/ \E row \in Indices, column \in Indices : CallRead(row, column)
    \/ \E row \in Indices, column \in Indices : CallReadConst(row, column)

SpecMatrix == MatrixInit /\ [][MatrixNext]_vars

-----------------------------------------------------------------------------
(* Solve *)

\* nze_list with the entries compared to zero, not to epsilon
NzeList_Nonzero(m, eps) ==
    [column \in 1..m.n_columns |->
        SelectSeq([row \in 1..m.n_rows |-> row - 1],
                  LAMBDA row : Read(m, row, column - 1) # Zero)]

\* nze_list: for each column, in increasing order, the rows whose entry has
\* magnitude >= epsilon
NzeList(m, eps) ==
    [column \in 1..m.n_columns |->
        SelectSeq([row \in 1..m.n_rows |-> row - 1],
                  LAMBDA row : GreaterEq(abs(Read(m, row, column - 1)), eps))]

\* The carry loop without list_index[i] = 0
RECURSIVE Carry_NoReset(_, _, _)
Carry_NoReset(index, nze, i) ==
    IF i >= Len(index) - 1 THEN index
    ELSE IF index[i + 1] >= Len(nze[i + 1])
         THEN Carry_NoReset([index EXCEPT ![i + 2] = @ + 1], nze, i + 1)
    ELSE Carry_NoReset(index, nze, i + 1)

\* The carry loop of the odometer, from column i on
RECURSIVE Carry(_, _, _)
Carry(index, nze, i) ==
    IF i >= Len(index) - 1 THEN index
    ELSE IF index[i + 1] >= Len(nze[i + 1])
         THEN Carry([index EXCEPT ![i + 1] = 0, ![i + 2] = @ + 1], nze, i + 1)
    ELSE Carry(index, nze, i + 1)

\* ++list_index[0], then the carry loop
Advance(index, nze) == Carry([index EXCEPT ![1] = @ + 1], nze, 0)

\* The square system built from the rows list_index names
NewMatrix(m, index) ==
    [Matrix(m.n_columns, m.n_columns) EXCEPT
        !.cell = [row \in 1..m.n_columns |->
                    [column \in 1..m.n_columns |-> Read(m, index[row], column - 1)]]]

NewEqual(m, eq, index) == [row \in 1..m.n_columns |-> eq[index[row] + 1]]

\* The row operation without equal[row] -= equal[column] * scalar
RowOp_MatrixOnly(sys, column, row, scalar) ==
    [ok |-> TRUE,
     m  |-> [sys.m EXCEPT !.cell[row + 1] =
               [k \in 1..Len(@) |-> Sub(@[k], Mul(sys.m.cell[column + 1][k], scalar))]],
     eq |-> sys.eq]

\* One row operation of the elimination: row -= scalar * pivot row
RowOp(sys, column, row, scalar) ==
    [ok |-> TRUE,
     m  |-> [sys.m EXCEPT !.cell[row + 1] =
               [k \in 1..Len(@) |-> Sub(@[k], Mul(sys.m.cell[column + 1][k], scalar))]],
     eq |-> [sys.eq EXCEPT ![row + 1] = Sub(@, Mul(sys.eq[column + 1], scalar))]]

\* The elimination loops from (column, row) on, over n columns
RECURSIVE Eliminate(_, _, _, _)
Eliminate(sys, n, column, row) ==
    IF column >= n THEN sys
    ELSE IF row >= n THEN Eliminate(sys, n, column + 1, 0)
    ELSE IF row = column THEN Eliminate(sys, n, column, row + 1)
    ELSE LET scalar == Div(Read(sys.m, row, column), Read(sys.m, column, column))
         IN  IF ~isfinite(scalar) THEN [sys EXCEPT !.ok = FALSE]
             ELSE Eliminate(RowOp(sys, column, row, scalar), n, column, row + 1)

\* The rescaling loop without the std::isfinite check
Rescale_Unchecked(m, eq, n) == [i \in 1..n |-> Div(eq[i], Read(m, i - 1, i - 1))]

\* The rescaling loop: the quotients, or <<>> when one is not finite
Rescale(m, eq, n) ==
    LET value == [i \in 1..n |-> Div(eq[i], Read(m, i - 1, i - 1))]
    IN  IF \A i \in 1..n : isfinite(value[i]) THEN value ELSE <<>>

Epsilons == {Zero, Fin(1), Fin(2)}

RhsVals == Entries \cup {PInf}

\* The vectors of n entries that are k ones followed by zeros
Steps(n) == {[i \in 1..n |-> IF i <= k THEN Fin(1) ELSE Zero] : k \in 0..n}

\* The right-hand sides tried with the matrix m: every vector of n_rows values
\* (the vectors of Steps for a matrix of more than MaxSmall cells), and a
\* vector one entry longer and one entry shorter
Rhs(m) ==
    (IF m.n_rows * m.n_columns <= MaxSmall
     THEN [1..m.n_rows -> RhsVals] ELSE Steps(m.n_rows))
        \cup {[i \in 1..k |-> Zero] : k \in {m.n_rows + 1} \cup ({m.n_rows - 1} \ {-1})}

\* The matrices Matrix(rows, columns) becomes when its cells are set to values
\* of vals
Filled(rows, columns, vals) ==
    LET m == Matrix(rows, columns)
    IN  {[m EXCEPT !.cell = cells] :
            cells \in [1..m.n_rows -> [1..m.n_columns -> vals]]}

\* No index used yet
NoAccess == [li |-> -1, ru |-> -1]

Largest(S) == CHOOSE x \in S : \A y \in S : y <= x

\* The systems Solve is called with
SolveInit ==
    /\ \E rows \in 0..MaxRows, columns \in 0..MaxCols :
          arg_matrix \in Filled(rows, columns, CellVals(rows, columns))
    /\ arg_equal \in Rhs(arg_matrix)
    /\ epsilon \in Epsilons
    /\ matrix = arg_matrix
    /\ equal = arg_equal
    /\ result = <<>>
    /\ nze_list = <<>> /\ list_index = <<>> /\ iterations = 0
    /\ pc = "call"
    /\ access = NoAccess
    /\ outcome = "none"
    /\ ret = Zero
    /\ error = Zero

Return(value, how) ==
    /\ result' = value
    /\ outcome' = how
    /\ pc' = "done"

\* Lines 211-237: the checks, and the candidate lists of a degenerate diagonal
SolveBegin ==
    /\ pc = "call"
    /\ UNCHANGED <<matrix, equal, epsilon, arg_matrix, arg_equal, iterations,
                   access, ret, error>>
    /\ IF ~is_valid(matrix)
       THEN Return(<<>>, "invalid") /\ UNCHANGED <<nze_list, list_index>>
       ELSE IF matrix.n_rows # Len(equal)
       THEN Return(<<>>, "mismatch") /\ UNCHANGED <<nze_list, list_index>>
       ELSE IF is_diagonal_nonzero(matrix, epsilon)
       THEN /\ pc' = "eliminate"
            /\ UNCHANGED <<result, outcome, nze_list, list_index>>
       ELSE IF \E column \in 1..matrix.n_columns :
                  Len(NzeList(matrix, epsilon)[column]) = 0
       THEN Return(<<>>, "no_pivot") /\ UNCHANGED <<nze_list, list_index>>
       ELSE /\ nze_list' = NzeList(matrix, epsilon)
            /\ list_index' = [column \in 1..matrix.n_columns |-> 0]
            /\ pc' = "search"
            /\ UNCHANGED <<result, outcome>>

\* Lines 244-245: the indices at which the loop sets row_used, one
\* list_index[i] for each i < n_rows. For i past the end of list_index the read
\* yields whatever lies there (matrix.n_rows stands for every value that is no
\* index of row_used)
Marked(m, index) ==
    LET own    == {index[i + 1] : i \in {k \in 0..(m.n_rows - 1) : k < Len(index)}}
        beyond == IF m.n_rows > Len(index) THEN m.n_rows - Len(index) ELSE 0
    IN  {own \cup stray :
            stray \in {S \in SUBSET (0..m.n_rows) :
                          IF beyond = 0 THEN S = {} ELSE Cardinality(S) \in 1..beyond}}

\* Lines 239-269: one pass of while (1)
SearchPass ==
    /\ pc = "search"
    /\ iterations' = iterations + 1
    /\ UNCHANGED <<matrix, equal, epsilon, arg_matrix, arg_equal, nze_list,
                   ret, error>>
    /\ \E marked \in Marked(matrix, list_index) :
          LET row_used == marked \cap (0..(matrix.n_rows - 1))
              n_used   == Cardinality(row_used)
              next     == Advance(list_index, nze_list)
          IN  /\ access' = [li |-> matrix.n_rows - 1, ru |-> Largest(marked)]
              /\ IF n_used = matrix.n_columns
                 THEN /\ pc' = "reduce"
                      /\ UNCHANGED <<list_index, result, outcome>>
                 ELSE /\ list_index' = next
                      /\ IF next[Len(next)] >= Len(nze_list[Len(next)])
                         THEN Return(<<>>, "search_failed")
                         ELSE pc' = "search" /\ UNCHANGED <<result, outcome>>

\* Lines 271-282: the reduced system replaces matrix and equal
Reduce ==
    /\ pc = "reduce"
    /\ matrix' = NewMatrix(matrix, list_index)
    /\ equal' = NewEqual(matrix, equal, list_index)
    /\ pc' = "eliminate"
    /\ access' = [li |-> matrix.n_columns - 1, ru |-> -1]
    /\ UNCHANGED <<epsilon, result, arg_matrix, arg_equal, nze_list, list_index,
                   iterations, outcome, ret, error>>

\* Lines 287-299: the elimination
Elimination ==
    /\ pc = "eliminate"
    /\ UNCHANGED <<epsilon, arg_matrix, arg_equal, nze_list, list_index,
                   iterations, access, ret, error>>
    /\ LET sys == Eliminate([ok |-> TRUE, m |-> matrix, eq |-> equal],
                            arg_matrix.n_columns, 0, 0)
       IN  /\ matrix' = sys.m
           /\ equal' = sys.eq
           /\ IF sys.ok
              THEN pc' = "rescale" /\ UNCHANGED <<result, outcome>>
              ELSE Return(<<>>, "scalar_not_finite")

\* Lines 302-312: the rescaling
Rescaling ==
    /\ pc = "rescale"
    /\ UNCHANGED <<matrix, equal, epsilon, arg_matrix, arg_equal, nze_list,
                   list_index, iterations, access, ret, error>>
    /\ LET value == Rescale(matrix, equal, arg_matrix.n_columns)
       IN  IF Len(value) = arg_matrix.n_columns
           THEN Return(value, "solved")
           ELSE Return(<<>>, "value_not_finite")

SolveNext == SolveBegin \/ SearchPass \/ Reduce \/ Elimination \/ Rescaling

Spec == SolveInit /\ [][SolveNext]_vars

-----------------------------------------------------------------------------
(* What the claims about Solve speak of *)

Square(m) == m.n_rows = m.n_columns /\ m.n_rows > 0

\* Every leading diagonal entry has magnitude >= eps
DiagonalAtLeast(m, eps) ==
    \A i \in 1..m.n_columns : GreaterEq(abs(m.cell[i][i]), eps)

\* Some leading diagonal entry has magnitude < eps
Degenerate(m, eps) ==
    \E i \in 1..m.n_columns : Less(abs(m.cell[i][i]), eps)

\* Row i of m times x
Dot(m, i, x) == SumTo([j \in 1..m.n_columns |-> Mul(m.cell[i][j], x[j])], m.n_columns)

\* m.x = b, in every row of m
Satisfies(m, b, x) ==
    /\ Len(x) = m.n_columns
    /\ \A i \in 1..m.n_rows : Dot(m, i, x) = b[i]

\* The determinant of the n x n array a, by expansion along its first row
RECURSIVE Det(_, _)
Det(a, n) ==
    IF n = 0 THEN Fin(1)
    ELSE SumTo([j \in 1..n |->
                  Mul(Mul(Fin(IF j % 2 = 1 THEN 1 ELSE -1), a[1][j]),
                      Det([r \in 1..(n - 1) |->
                              [c \in 1..(n - 1) |-> a[r + 1][IF c < j THEN c ELSE c + 1]]],
                          n - 1))], n)

\* No leading principal minor of m is zero
LeadingMinorsNonzero(m) ==
    \A k \in 1..m.n_columns : Det(m.cell, k) # Zero

\* One row per column, pairwise distinct, each with a usable entry in its column
AssignmentExists(m, eps) ==
    \E f \in [1..m.n_columns -> 1..m.n_rows] :
        /\ \A c, d \in 1..m.n_columns : c # d => f[c] # f[d]
        /\ \A c \in 1..m.n_columns : GreaterEq(abs(m.cell[f[c]][c]), eps)

RECURSIVE Product(_, _)
Product(f, n) == IF n = 0 THEN 1 ELSE Product(f, n - 1) * f[n]

\* The product of the candidate lists' sizes
Combinations == Product([c \in 1..Len(nze_list) |-> Len(nze_list[c])], Len(nze_list))

-----------------------------------------------------------------------------
(* C1: for every valid square matrix whose diagonal entries all have       *)
(* magnitude >= epsilon, and every right-hand side of matching length for   *)
(* which the system is consistent (here: it has a solution among the        *)
(* vectors of Entries), Solve returns x of length columns with matrix.x =   *)
(* equal.                                                                   *)
C1_SolvesEveryConsistentSystem ==
    (/\ pc = "done"
     /\ Square(arg_matrix)
     /\ DiagonalAtLeast(arg_matrix, epsilon)
     /\ Len(arg_equal) = arg_matrix.n_rows
     /\ \E x \in [1..arg_matrix.n_columns -> Entries] :
            Satisfies(arg_matrix, arg_equal, x))
    => Satisfies(arg_matrix, arg_equal, result)

(* C1, amended: for every valid square matrix whose diagonal entries all    *)
(* have magnitude >= epsilon and every finite right-hand side of matching   *)
(* length, Solve returns x of length columns with matrix.x = equal when no  *)
(* leading principal minor of the matrix is zero, and the empty sequence    *)
(* when one is.                                                             *)
C1_SolvesWhenNoPivotVanishes ==
    (/\ pc = "done"
     /\ Square(arg_matrix)
     /\ DiagonalAtLeast(arg_matrix, epsilon)
     /\ Len(arg_equal) = arg_matrix.n_rows
     /\ AllFinite(arg_equal))
    => IF LeadingMinorsNonzero(arg_matrix)
       THEN Satisfies(arg_matrix, arg_equal, result)
       ELSE result = <<>>

\* A 2 x 2 system with no zero entry and a right-hand side of two different
\* nonzero values, solved
C1_Witness ==
    /\ pc = "done"
    /\ arg_matrix.n_rows = 2 /\ arg_matrix.n_columns = 2
    /\ DiagonalAtLeast(arg_matrix, epsilon)
    /\ \A r, c \in 1..2 : arg_matrix.cell[r][c] # Zero
    /\ Len(arg_equal) = 2 /\ AllFinite(arg_equal)
    /\ arg_equal[1] # Zero /\ arg_equal[2] # Zero /\ arg_equal[1] # arg_equal[2]
    /\ Len(result) = 2
    /\ Satisfies(arg_matrix, arg_equal, result)

(* C2: with a degenerate diagonal, the pivot search fails only if no        *)
(* assignment of pairwise distinct rows, one per column, each with an entry *)
(* of magnitude >= epsilon in its column, exists; when one exists the       *)
(* search accepts and Solve goes on to eliminate. Stated for square         *)
(* matrices, where the search reads and writes within bounds.               *)
C2_SearchFindsAnAssignment ==
    (/\ pc = "done"
     /\ Square(arg_matrix)
     /\ Len(arg_equal) = arg_matrix.n_rows
     /\ Degenerate(arg_matrix, epsilon)
     /\ AssignmentExists(arg_matrix, epsilon))
    => outcome \notin {"no_pivot", "search_failed"}

(* C3: Solve returns the empty sequence when the matrix is invalid, when    *)
(* the right-hand side's length differs from the row count, and when the    *)
(* diagonal is degenerate and some column has every entry of magnitude      *)
(* below epsilon.                                                           *)
C3_EmptyOnBadInput ==
    (/\ pc = "done"
     /\ \/ arg_matrix.n_rows = 0
        \/ arg_matrix.n_columns = 0
        \/ arg_matrix.n_rows < arg_matrix.n_columns
        \/ Len(arg_equal) # arg_matrix.n_rows
        \/ /\ Degenerate(arg_matrix, epsilon)
           /\ \E c \in 1..arg_matrix.n_columns : \A r \in 1..arg_matrix.n_rows :
                  Less(abs(arg_matrix.cell[r][c]), epsilon))
    => result = <<>>

\* A valid system whose first column holds no entry of magnitude >= epsilon,
\* while its second column does: Solve has returned empty
C3_Witness ==
    /\ pc = "done"
    /\ arg_matrix.n_columns = 2
    /\ Len(arg_equal) = arg_matrix.n_rows
    /\ \A r \in 1..arg_matrix.n_rows : Less(abs(arg_matrix.cell[r][1]), epsilon)
    /\ \E r \in 1..arg_matrix.n_rows : GreaterEq(abs(arg_matrix.cell[r][2]), epsilon)
    /\ result = <<>>

(* C4: what Solve returns is empty or has exactly columns entries, all      *)
(* finite; a division that is not finite, in the elimination or in the      *)
(* rescaling, makes it return empty.                                        *)
C4_EmptyOrFinite ==
    /\ \/ result = <<>>
       \/ /\ Len(result) = arg_matrix.n_columns
          /\ \A i \in 1..Len(result) : result[i] \notin NonFinite
    /\ outcome \in {"scalar_not_finite", "value_not_finite"} => result = <<>>

\* The rescaling divided by a zero pivot, and Solve returned empty
C4_Witness ==
    /\ pc = "done"
    /\ outcome = "value_not_finite"
    /\ \E i \in 1..arg_matrix.n_columns : matrix.cell[i][i] = Zero
    /\ result = <<>>

(* C8: when the pivot search accepts, the reduced system is columns x       *)
(* columns, its row c is the original row Candidates[c][counter[c]] with    *)
(* that row's right-hand side, the source rows are pairwise distinct, and   *)
(* every diagonal entry of it has magnitude >= epsilon. Stated for square   *)
(* matrices, where the search reads and writes within bounds.               *)
C8_ReducedSystemFromCandidates ==
    (/\ pc = "eliminate"
     /\ nze_list # <<>>
     /\ Square(arg_matrix))
    => LET n == arg_matrix.n_columns
           source == [c \in 1..n |-> nze_list[c][list_index[c] + 1]]
       IN  /\ matrix.n_rows = n /\ matrix.n_columns = n /\ Len(equal) = n
           /\ \A c \in 1..n :
                 /\ matrix.cell[c] = arg_matrix.cell[source[c] + 1]
                 /\ equal[c] = arg_equal[source[c] + 1]
           /\ \A c, d \in 1..n : c # d => source[c] # source[d]
           /\ DiagonalAtLeast(matrix, epsilon)

C10_SearchStaysInBounds ==
    /\ access.li < arg_matrix.n_columns
    /\ access.ru < arg_matrix.n_rows

-----------------------------------------------------------------------------
(* ErrorEstimate *)

\* The residual loops without std::abs
RECURSIVE Residual_Signed(_, _, _, _, _)
Residual_Signed(m, eq, res, i, err) ==
    IF i >= m.n_rows THEN err
    ELSE LET sum == SumTo([j \in 1..m.n_columns |->
                             Mul(ReadConst(m, i, j - 1), res[j])], m.n_columns)
         IN  Residual_Signed(m, eq, res, i + 1, Add(err, Sub(sum, eq[i + 1])))

\* The residual loops of lines 332-340, from row i on
RECURSIVE Residual(_, _, _, _, _)
Residual(m, eq, res, i, err) ==
    IF i >= m.n_rows THEN err
    ELSE LET sum == SumTo([j \in 1..m.n_columns |->
                             Mul(ReadConst(m, i, j - 1), res[j])], m.n_columns)
         IN  Residual(m, eq, res, i + 1, Add(err, abs(Sub(sum, eq[i + 1]))))

ErrorEstimate(m, eq, res) ==
    IF ~is_valid(m) THEN NaN
    ELSE IF (m.n_rows # Len(eq)) \/ (m.n_columns # Len(res)) THEN NaN
    ELSE Residual(m, eq, res, 0, Zero)

ErrVals == Entries \cup {NaN, PInf}

\* The vectors tried where n entries are expected: every vector of n values of
\* vals, and one vector of each other length
Vectors(n, vals) ==
    [1..n -> vals] \cup {[i \in 1..k |-> Zero] : k \in (0..(MaxDim + 1)) \ {n}}

Small(m) == m.n_rows * m.n_columns <= MaxSmall

ErrorInit ==
    /\ \E rows \in 0..MaxDim, columns \in 0..MaxDim :
          matrix \in Filled(rows, columns, IF rows * columns <= MaxSmall
                                             THEN Entries \cup {NaN} ELSE Bits)
    /\ equal \in Vectors(matrix.n_rows, IF Small(matrix) THEN ErrVals ELSE Bits)
    /\ result \in Vectors(matrix.n_columns,
                           IF Small(matrix) THEN ErrVals ELSE Entries \cup {NaN})
    /\ arg_matrix = matrix
    /\ arg_equal = equal
    /\ epsilon = Zero
    /\ nze_list = <<>> /\ list_index = <<>> /\ iterations = 0
    /\ pc = "call"
    /\ access = NoAccess
    /\ outcome = "none"
    /\ ret = Zero
    /\ error = Zero

CallErrorEstimate ==
    /\ pc = "call"
    /\ error' = ErrorEstimate(matrix, equal, result)
    /\ pc' = "done"
    /\ UNCHANGED <<matrix, equal, epsilon, result, arg_matrix, arg_equal,
                   nze_list, list_index, iterations, access, outcome, ret>>

ErrorNext == CallErrorEstimate

SpecError == ErrorInit /\ [][ErrorNext]_vars

\* ErrorEstimate's three failure conditions, on its arguments
BadArguments ==
    \/ matrix.n_rows = 0 \/ matrix.n_columns = 0 \/ matrix.n_rows < matrix.n_columns
    \/ Len(equal) # matrix.n_rows
    \/ Len(result) # matrix.n_columns

ResidualFacts ==
    IF BadArguments THEN error = NaN
    ELSE /\ error # NaN
         /\ GreaterEq(error, Zero)
         /\ (error = Zero) <=> Satisfies(matrix, equal, result)

(* C5: ErrorEstimate returns NaN exactly when the matrix is invalid or the  *)
(* right-hand side's length differs from the row count or the solution's    *)
(* length differs from the column count; otherwise it returns the sum over  *)
(* all rows of the absolute residuals, which is nonnegative, and zero iff   *)
(* the solution satisfies every equation.                                   *)
C5_NaNExactlyOnBadArguments == pc = "done" => ResidualFacts

FiniteCells(m) == \A r \in 1..m.n_rows : AllFinite(m.cell[r])

(* C5, amended: the same, for a matrix, a right-hand side and a solution    *)
(* whose entries are all finite.                                            *)
C5_NaNExactlyOnBadArgumentsFinite ==
    (pc = "done" /\ FiniteCells(matrix) /\ AllFinite(equal) /\ AllFinite(result))
    => ResidualFacts

\* A 2 x 1 system whose solution fits the first equation and not the second:
\* the residual of the second row alone makes the estimate positive
C5_Witness ==
    /\ pc = "done"
    /\ matrix.n_rows = 2 /\ matrix.n_columns = 1
    /\ Len(equal) = 2 /\ Len(result) = 1
    /\ FiniteCells(matrix) /\ AllFinite(equal) /\ AllFinite(result)
    /\ Dot(matrix, 1, result) = equal[1]
    /\ Dot(matrix, 2, result) # equal[2]
    /\ Less(Zero, error)

-----------------------------------------------------------------------------
(* What the claims about the Matrix members speak of *)

\* The cells of m0 with row index replaced by data
RowReplaced(m, m0, index, data) ==
    /\ m.n_rows = m0.n_rows /\ m.n_columns = m0.n_columns
    /\ \A r \in 1..m0.n_rows, c \in 1..m0.n_columns :
          m.cell[r][c] = IF r = index + 1 THEN data[c] ELSE m0.cell[r][c]

\* The cells of m0 with column index replaced by data
ColumnReplaced(m, m0, index, data) ==
    /\ m.n_rows = m0.n_rows /\ m.n_columns = m0.n_columns
    /\ \A r \in 1..m0.n_rows, c \in 1..m0.n_columns :
          m.cell[r][c] = IF c = index + 1 THEN data[r] ELSE m0.cell[r][c]

HasNonFinite(data) == \E i \in 1..Len(data) : data[i] \in NonFinite

SameCells(m, m0) ==
    /\ m.n_rows = m0.n_rows /\ m.n_columns = m0.n_columns
    /\ m.cell = m0.cell

(* C6: set_row(index, data) and set_column(index, data) leave every cell    *)
(* and both dimensions unchanged if data's length differs from columns      *)
(* (resp. rows) or an element of data is not finite; otherwise exactly the  *)
(* cells of the addressed row (resp. column) are replaced by data.          *)
C6_AllOrNothing ==
    /\ pc = "set_row" =>
          IF Len(access.data) # access.before.n_columns \/ HasNonFinite(access.data)
          THEN SameCells(matrix, access.before)
          ELSE RowReplaced(matrix, access.before, access.a, access.data)
    /\ pc = "set_column" =>
          IF Len(access.data) # access.before.n_rows \/ HasNonFinite(access.data)
          THEN SameCells(matrix, access.before)
          ELSE ColumnReplaced(matrix, access.before, access.a, access.data)

(* C6, amended: the same, the replacement for an index that addresses a row *)
(* (index < rows), resp. a column (index < columns), of the matrix.         *)
C6_AllOrNothingInRange ==
    /\ pc = "set_row" =>
          IF Len(access.data) # access.before.n_columns \/ HasNonFinite(access.data)
          THEN SameCells(matrix, access.before)
          ELSE access.a < access.before.n_rows =>
                  RowReplaced(matrix, access.before, access.a, access.data)
    /\ pc = "set_column" =>
          IF Len(access.data) # access.before.n_rows \/ HasNonFinite(access.data)
          THEN SameCells(matrix, access.before)
          ELSE access.a < access.before.n_columns =>
                  ColumnReplaced(matrix, access.before, access.a, access.data)

\* set_row has refused a vector of the right length with a non-finite element,
\* on a matrix whose addressed row held a nonzero value
C6_Witness ==
    /\ pc = "set_row"
    /\ access.before.n_columns = 2
    /\ Len(access.data) = 2
    /\ HasNonFinite(access.data)
    /\ access.a < access.before.n_rows
    /\ \E c \in 1..2 : access.before.cell[access.a + 1][c] # Zero
    /\ matrix = access.before

(* C7: a read at an out-of-range (row, column) yields NaN, and a write at   *)
(* an out-of-range (row, column) changes no in-bounds cell, no dimension,   *)
(* and not the value any later read returns.                                *)
C7_OutOfRangeAccessIsInert ==
    /\ (pc \in {"read", "read_const"} /\ OutOfRange(matrix, access.a, access.b))
          => ret = NaN
    /\ (pc = "write" /\ OutOfRange(access.before, access.a, access.b))
          => /\ SameCells(matrix, access.before)
             /\ \A row \in Indices, column \in Indices :
                   /\ Read(matrix, row, column) = Read(access.before, row, column)
                   /\ ReadConst(matrix, row, column)
                         = ReadConst(access.before, row, column)

====
